---- MODULE Spec2Model ----
(***************************************************************************)
(* Model of DelaunayVoronoiCreator.py: the animation callback update(frame) *)
(* that appends all_points[frame] to current_points, clears the axes and    *)
(* redraws the Delaunay triangles and the Voronoi diagram of the points,    *)
(* driven by matplotlib's FuncAnimation over frames 0..len(all_points)-1.   *)
(*                                                                         *)
(* Coordinates are the source's coordinates times 10, so that the fixed     *)
(* points (0.2,0.2), (0.8,0.2), (0.5,0.8) are <<2,2>>, <<8,2>>, <<5,8>> and *)
(* every predicate is exact integer arithmetic.  Python's 0-based index     *)
(* all_points[frame] is all_points[frame + 1] here.                         *)
(***************************************************************************)
EXTENDS Integers, Sequences, FiniteSets

VARIABLES all_points, current_points, pc, frame_seq,
          red, blue, green, title, printed, escaped

vars == <<all_points, current_points, pc, frame_seq,
          red, blue, green, title, printed, escaped>>

(* Number of random points that follow the three fixed ones (1000 in the   *)
(* source; bounded here).                                                   *)
POINT_COUNT == 3

(* The three fixed points of all_points. *)
SEED == << <<2, 2>>, <<8, 2>>, <<5, 8>> >>

(* Values np.random.rand(POINT_COUNT, 2) may return, on the grid: a point   *)
(* inside the fixed triangle, a point coinciding with a fixed point, a      *)
(* point on an edge of the fixed triangle, and two points that form a       *)
(* rectangle (four co-circular points) with the base of the fixed triangle. *)
RandPts == { <<5, 5>>, <<2, 2>>, <<5, 2>>, <<2, 0>>, <<8, 0>> }

Range(s) == { s[i] : i \in 1..Len(s) }

(* ------------------------- scipy.spatial.Delaunay ---------------------- *)

(* Twice the signed area of triangle a, b, c: > 0 when counter-clockwise.   *)
Cross(a, b, c) ==
    (b[1] - a[1]) * (c[2] - a[2]) - (b[2] - a[2]) * (c[1] - a[1])

Sq(a, d) == (a[1] - d[1]) * (a[1] - d[1]) + (a[2] - d[2]) * (a[2] - d[2])

(* The in-circle determinant of d against the circle through a, b, c.       *)
InCircleDet(a, b, c, d) ==
      (a[1] - d[1]) * ((b[2] - d[2]) * Sq(c, d) - (c[2] - d[2]) * Sq(b, d))
    - (a[2] - d[2]) * ((b[1] - d[1]) * Sq(c, d) - (c[1] - d[1]) * Sq(b, d))
    + Sq(a, d) * ((b[1] - d[1]) * (c[2] - d[2]) - (c[1] - d[1]) * (b[2] - d[2]))

(* d lies strictly inside the circumcircle of the non-degenerate a, b, c.   *)
StrictlyInside(a, b, c, d) == InCircleDet(a, b, c, d) * Cross(a, b, c) > 0

(* d lies exactly on the circumcircle of a, b, c.                           *)
OnCircle(a, b, c, d) == InCircleDet(a, b, c, d) = 0

(* Qhull's "initial simplex is flat": all input points are collinear (this  *)
(* includes fewer than three distinct points).                              *)
Flat(pts) ==
    \A i, j, k \in 1..Len(pts) : Cross(pts[i], pts[j], pts[k]) = 0

(* Indices of the input points Qhull keeps as vertices: the first           *)
(* occurrence of each coordinate pair (option Qc lists the later ones as    *)
(* coplanar points, which belong to no simplex).                            *)
Vertices(pts) ==
    { i \in 1..Len(pts) : \A j \in 1..(i - 1) : pts[j] # pts[i] }

(* Index triples i < j < k of non-collinear vertices.                       *)
Triples(pts) ==
    { t \in Vertices(pts) \X Vertices(pts) \X Vertices(pts) :
        /\ t[1] < t[2]
        /\ t[2] < t[3]
        /\ Cross(pts[t[1]], pts[t[2]], pts[t[3]]) # 0 }

(* A variant that accepts every non-degenerate triple, the circumcircle     *)
(* test left out.                                                           *)
EmptyCircleSkipped(pts, t) == TRUE

(* No input point lies strictly inside the circumcircle of triple t.        *)
EmptyCircle(pts, t) ==
    \A m \in 1..Len(pts) :
        ~StrictlyInside(pts[t[1]], pts[t[2]], pts[t[3]], pts[m])

(* Edge a-b of a triangle whose third vertex is c separates it from the     *)
(* triangle with vertices u: no vertex of u is strictly on c's side.        *)
Separates(a, b, c, u) ==
    \A v \in u : Cross(a, b, v) * Cross(a, b, c) <= 0

SeparatedBy(s, u) ==
    \/ Separates(s[1], s[2], s[3], {u[1], u[2], u[3]})
    \/ Separates(s[2], s[3], s[1], {u[1], u[2], u[3]})
    \/ Separates(s[3], s[1], s[2], {u[1], u[2], u[3]})

(* The interiors of the triangles with coordinate triples s and u meet.     *)
Overlap(s, u) == ~SeparatedBy(s, u) /\ ~SeparatedBy(u, s)

Coords(pts, t) == << pts[t[1]], pts[t[2]], pts[t[3]] >>

LexLess(t, u) ==
    \/ t[1] < u[1]
    \/ t[1] = u[1] /\ t[2] < u[2]
    \/ t[1] = u[1] /\ t[2] = u[2] /\ t[3] < u[3]

(* Option Qt: co-circular facets are triangulated.  Which diagonal Qhull    *)
(* picks is a deterministic function of the input array; here the           *)
(* candidates are taken in index order and one that overlaps an accepted    *)
(* triangle is dropped.                                                     *)
RECURSIVE Triangulate(_, _, _)
Triangulate(pts, cands, acc) ==
    IF cands = {} THEN acc
    ELSE LET t == CHOOSE x \in cands : \A y \in cands \ {x} : LexLess(x, y)
             free == \A u \in acc : ~Overlap(Coords(pts, t), Coords(pts, u))
         IN  Triangulate(pts, cands \ {t}, IF free THEN acc \cup {t} ELSE acc)

(* Delaunay(pts): raises QhullError on a flat input, else tri.simplices.    *)
Delaunay(pts) ==
    IF Flat(pts)
    THEN [ok |-> FALSE, simplices |-> {}]
    ELSE [ok |-> TRUE,
          simplices |->
              Triangulate(pts, { t \in Triples(pts) : EmptyCircle(pts, t) }, {})]

(* ------------------------------ update --------------------------------- *)

(* A variant of the append that rejects a point already in the list.        *)
AppendPointUnlessPresent(points, p) ==
    IF p \in Range(points) THEN points ELSE Append(points, p)

(* current_points.append(all_points[frame])                                 *)
AppendPoint(points, p) == Append(points, p)

(* A variant of ax.clear() that leaves the artists of earlier frames.       *)
AxClearKeeps(lines) == lines

(* ax.clear(): the axes hold no artist afterwards.                          *)
AxClear(lines) == {}

(* The blue closed polylines: one per simplex, through pts[triangle].       *)
DrawSimplices(pts, simplices) ==
    { {pts[t[1]], pts[t[2]], pts[t[3]]} : t \in simplices }

(* A variant of the inner try without its except clause: a Voronoi failure  *)
(* leaves the callback as an exception.                                     *)
TryVoronoiUncaught(frame, vorOk) ==
    [green |-> vorOk, printed |-> {}, escaped |-> ~vorOk]

(* The inner try: Voronoi(pts) and voronoi_plot_2d draw the green diagram;  *)
(* a failure is printed with the frame and swallowed.                       *)
TryVoronoi(frame, vorOk) ==
    [green |-> vorOk,
     printed |-> IF vorOk THEN {} ELSE {frame},
     escaped |-> FALSE]

(* A variant of the outer except clause that restores the point list of     *)
(* before the frame.                                                        *)
ExceptRollsBack(before, after) == before

(* The outer except clause only sets the title: the point list keeps the    *)
(* point appended at the start of the frame.                                *)
ExceptKeepsPoints(before, after) == after

(* A variant of the failure test under which Delaunay never raises.         *)
DelaunayNeverRaises(d) == FALSE

(* Delaunay(pts) raised: control goes to the outer except clause.           *)
DelaunayRaised(d) == ~d.ok

(* The body of update(frame) after the point was appended: what the frame   *)
(* leaves on the axes, in the title and on stdout.  vorOk is the outcome of *)
(* the Voronoi computation and plot.                                        *)
Frame(before, pts, old, frame, vorOk) ==
    LET cleared == AxClear(old)
        step == [kind |-> "step", step |-> frame + 1, npoints |-> Len(pts)]
    IN  IF Len(pts) >= 3
        THEN LET d == Delaunay(pts)
             IN  IF DelaunayRaised(d)
                 THEN [points |-> ExceptKeepsPoints(before, pts),
                       blue |-> cleared, green |-> FALSE, printed |-> {},
                       escaped |-> FALSE,
                       title |-> [kind |-> "failed", step |-> frame + 1,
                                  npoints |-> Len(pts)]]
                 ELSE LET v == TryVoronoi(frame, vorOk)
                      IN  [points |-> pts,
                           blue |-> cleared \cup DrawSimplices(pts, d.simplices),
                           green |-> v.green, printed |-> v.printed,
                           escaped |-> v.escaped,
                           title |-> step]
        ELSE [points |-> pts, blue |-> cleared, green |-> FALSE,
              printed |-> {}, escaped |-> FALSE, title |-> step]

(* update(frame) *)
update(frame, vorOk) ==
    \E pts \in { AppendPoint(current_points, all_points[frame + 1]) } :
    \E f \in { Frame(current_points, pts, blue, frame, vorOk) } :
        /\ current_points' = f.points
        /\ red' = Range(pts)
        /\ blue' = f.blue
        /\ green' = f.green
        /\ title' = f.title
        /\ printed' = printed \cup f.printed
        /\ escaped' = f.escaped

(* ---------------------------- FuncAnimation ---------------------------- *)

(* main(): the figure, the empty point list, and the input array.           *)
Init ==
    /\ all_points \in { SEED \o r : r \in [1..POINT_COUNT -> RandPts] }
    /\ current_points = << >>
    /\ pc = "start"
    /\ frame_seq = 0
    /\ red = {}
    /\ blue = {}
    /\ green = FALSE
    /\ title = [kind |-> "initial", step |-> 0, npoints |-> 0]
    /\ printed = {}
    /\ escaped = FALSE

(* The first draw of the figure: no init_func was given, so the animation   *)
(* draws the first item of a new frame sequence, update(0).                 *)
InitDraw ==
    /\ pc = "start"
    /\ \E vorOk \in BOOLEAN : update(0, vorOk)
    /\ pc' = "running"
    /\ UNCHANGED <<all_points, frame_seq>>

(* One timer tick: the next item of the animation's own frame sequence,     *)
(* which starts at frame 0.                                                 *)
Step ==
    /\ pc = "running"
    /\ frame_seq < Len(all_points)
    /\ \E vorOk \in BOOLEAN : update(frame_seq, vorOk)
    /\ frame_seq' = frame_seq + 1
    /\ UNCHANGED <<all_points, pc>>

(* The frame sequence is exhausted and repeat is False: the timer stops.    *)
Stop ==
    /\ pc = "running"
    /\ frame_seq = Len(all_points)
    /\ pc' = "done"
    /\ UNCHANGED <<all_points, current_points, frame_seq,
                   red, blue, green, title, printed, escaped>>

Next == InitDraw \/ Step \/ Stop

Spec == Init /\ [][Next]_vars

(* ------------------------------ properties ----------------------------- *)

(* The callback is about to run: the first draw, or a tick with a frame     *)
(* left.  Every step taken from such a state is one call of update.         *)
Inserting ==
    \/ pc = "start"
    \/ pc = "running" /\ frame_seq < Len(all_points)

(* The point the next call of update appends. *)
NextPoint == all_points[frame_seq + 1]

(* The triangles update draws for a point list, computed from that list     *)
(* alone.                                                                   *)
FromScratch(pts) ==
    IF Len(pts) >= 3 /\ ~Flat(pts)
    THEN DrawSimplices(pts, Delaunay(pts).simplices)
    ELSE {}

(* The frame whose drawing is on the axes. *)
LastFrame == title.step - 1

(* C1: after every frame with at least 3 points, every drawn triangle is    *)
(* non-degenerate and has no inserted point strictly inside its             *)
(* circumcircle (this holds whether or not the inserted points repeat).     *)
C1_EmptyCircumcircle ==
    Len(current_points) >= 3 =>
        \A t \in blue : \A a \in t : \A b \in t \ {a} : \A c \in t \ {a, b} :
            /\ Cross(a, b, c) # 0
            /\ \A p \in Range(current_points) : ~StrictlyInside(a, b, c, p)

(* All input points differ, every one was inserted, and the triangulation   *)
(* has at least four triangles.                                             *)
C1_Witness ==
    /\ pc = "done"
    /\ Cardinality(Range(all_points)) = Len(all_points)
    /\ Cardinality(blue) >= 4

(* C2 as stated: a call of update whose point coincides with an inserted    *)
(* point leaves the point list as it was, and the number of triangles too.  *)
C2_DuplicateRejected ==
    [][ (Inserting /\ NextPoint \in Range(current_points)) =>
            /\ current_points' = current_points
            /\ Cardinality(blue') = Cardinality(blue) ]_vars

(* C2 as amended: a call of update whose point coincides with an inserted   *)
(* point appends it all the same, raises nothing, and leaves the number of  *)
(* triangles as it was.                                                     *)
C2_DuplicateAppended ==
    [][ (Inserting /\ NextPoint \in Range(current_points)) =>
            /\ current_points' = Append(current_points, NextPoint)
            /\ ~escaped'
            /\ Cardinality(blue') = Cardinality(blue) ]_vars

(* A second (0.2,0.2) was appended last, after a triangulated frame.        *)
C2_Witness ==
    /\ Len(current_points) >= 5
    /\ current_points[Len(current_points)] = <<2, 2>>
    /\ blue # {}

(* The first three inserted points are collinear. *)
FirstThreeCollinear ==
    /\ Len(current_points) >= 3
    /\ Cross(current_points[1], current_points[2], current_points[3]) = 0

(* C3 as stated: once the first three inserted points are collinear, the    *)
(* failure is reported, no triangle is created and no further insertion is  *)
(* accepted.                                                                *)
C3_FailFast ==
    FirstThreeCollinear =>
        /\ title.kind = "failed"
        /\ blue = {}
        /\ Len(current_points) = 3

(* C3 as amended: the frame that makes the first three inserted points      *)
(* collinear reports the failure in the title and draws no triangle and no  *)
(* Voronoi diagram, nothing is raised, and the next insertion is accepted   *)
(* and triangulated as soon as the points are not all collinear.            *)
C3_FlatReportedNotFatal ==
    [][ (FirstThreeCollinear /\ Len(current_points) = 3) =>
            /\ title.kind = "failed"
            /\ blue = {}
            /\ ~green
            /\ ~escaped
            /\ current_points' = Append(current_points, NextPoint)
            /\ ~Flat(current_points') =>
                   (blue' # {} /\ title'.kind = "step") ]_vars

(* A fourth point was accepted and triangulated after the flat frame.       *)
C3_Witness ==
    /\ FirstThreeCollinear
    /\ Len(current_points) = 4
    /\ blue # {}

(* C4 as stated: a call of update that ends in the Delaunay failure leaves  *)
(* the point list and the triangle set as they were before the call.        *)
C4_RolledBack ==
    [][ (Inserting /\ title'.kind = "failed") =>
            /\ current_points' = current_points
            /\ blue' = blue ]_vars

(* C4 as amended: a call of update that ends in the Delaunay failure keeps  *)
(* the new point at the end of the point list, and leaves the axes without  *)
(* triangles and without a Voronoi diagram.                                 *)
C4_FailedKeepsPoint ==
    [][ (Inserting /\ title'.kind = "failed") =>
            /\ current_points' = Append(current_points, NextPoint)
            /\ blue' = {}
            /\ ~green'
            /\ ~escaped' ]_vars

(* The frame just ended in the Delaunay failure. *)
C4_Witness ==
    /\ title.kind = "failed"
    /\ Len(current_points) = 3
    /\ current_points[3] = all_points[2]

(* C5: the point list is a prefix of the input sequence.                    *)
C5_PrefixOfInput ==
    \A i \in 1..Len(current_points) :
        /\ i <= Len(all_points)
        /\ current_points[i] = all_points[i]

(* No four points of P lie on one circle. *)
NoCocircular(P) ==
    \A a, b, c \in P :
        Cross(a, b, c) > 0 => \A d \in P \ {a, b, c} : ~OnCircle(a, b, c, d)

(* The triangles of P with an empty circumcircle: a function of the set.    *)
EmptyTriangles(P) ==
    { {x[1], x[2], x[3]} :
        x \in { y \in P \X P \X P :
                  /\ Cross(y[1], y[2], y[3]) > 0
                  /\ \A p \in P : ~StrictlyInside(y[1], y[2], y[3], p) } }

(* The input with the points at positions i and i + 1 exchanged.            *)
Swap(s, i) ==
    [ k \in 1..Len(s) |->
        IF k = i THEN s[i + 1] ELSE IF k = i + 1 THEN s[i] ELSE s[k] ]

(* The triangles on the axes after the last frame of a run over input s:    *)
(* update saw s[1] twice, then the rest of s.                               *)
FinalBlue(s) ==
    LET pts == <<s[1]>> \o s
    IN  Frame(pts, pts, {}, Len(s) - 1, TRUE).blue

(* C6: when no four input points are co-circular, the final triangles are   *)
(* those of the point set (its triangles with an empty circumcircle), and   *)
(* the same as for the input with any two neighbours exchanged.             *)
C6_OrderIndependent ==
    (pc = "done" /\ NoCocircular(Range(all_points))) =>
        /\ blue = EmptyTriangles(Range(all_points))
        /\ \A i \in 1..(Len(all_points) - 1) :
               FinalBlue(Swap(all_points, i)) = blue

(* A finished run over at least five different points, no four of them      *)
(* co-circular.                                                             *)
C6_Witness ==
    /\ pc = "done"
    /\ NoCocircular(Range(all_points))
    /\ Cardinality(Range(all_points)) >= 5
    /\ Cardinality(blue) >= 4

(* q lies strictly inside the triangle of the three fixed points.           *)
InsideSeed(q) ==
    /\ Cross(SEED[1], SEED[2], q) > 0
    /\ Cross(SEED[2], SEED[3], q) > 0
    /\ Cross(SEED[3], SEED[1], q) > 0

(* C7: when the inserted points are the three fixed points and one point    *)
(* strictly inside their triangle, there are exactly 3 triangles and each   *)
(* has that point as a vertex.                                              *)
C7_InteriorPointSplits ==
    \A q \in Range(current_points) :
        (InsideSeed(q) /\ Range(current_points) = Range(SEED) \cup {q}) =>
            /\ Cardinality(blue) = 3
            /\ \A t \in blue : q \in t

(* (0.5,0.5) was inserted after the three fixed points.                     *)
C7_Witness ==
    /\ Range(current_points) = Range(SEED) \cup {<<5, 5>>}
    /\ current_points[Len(current_points)] = <<5, 5>>
    /\ Cardinality(blue) = 3

(* C8: what is on the axes after a frame is computed from the current point *)
(* list alone: the triangles are those of the list, and a Voronoi diagram   *)
(* or a failure title is there only for this frame's own computation.       *)
C8_FromScratch ==
    title.kind # "initial" =>
        /\ blue = FromScratch(current_points)
        /\ title.npoints = Len(current_points)
        /\ (title.kind = "failed") = (Len(current_points) >= 3 /\ Flat(current_points))
        /\ green => (blue # {} /\ LastFrame \notin printed)

(* Triangles are drawn after an earlier frame's Delaunay failure and an     *)
(* earlier frame's Voronoi failure.                                         *)
C8_Witness ==
    /\ Len(current_points) >= 5
    /\ blue # {}
    /\ green
    /\ printed # {}

(* C9: no failure leaves the callback; after a Voronoi failure the frame's  *)
(* triangles are on the axes; after a Delaunay failure no Voronoi diagram   *)
(* was computed (none drawn, no Voronoi failure printed).                   *)
C9_FailuresContained ==
    /\ ~escaped
    /\ (title.kind # "initial" /\ LastFrame \in printed) =>
           /\ title.kind = "step"
           /\ ~green
           /\ blue # {}
           /\ blue = FromScratch(current_points)
    /\ title.kind = "failed" =>
           /\ ~green
           /\ LastFrame \notin printed

(* The frame's Voronoi computation failed and its triangles are drawn.      *)
C9_Witness ==
    /\ title.kind = "step"
    /\ LastFrame \in printed
    /\ Cardinality(blue) >= 2

(* C10: after every call update(frame) the number of points is frame + 1.   *)
C10_FrameMatchesCount ==
    title.kind # "initial" => Len(current_points) = LastFrame + 1

====
